---- MODULE Spec2Model ----
(***************************************************************************)
(* Soyle Qyzylorda (src/sq.py): the SQLite store with its four tables and  *)
(* the HTTP handlers that read and write it, and the session id that the   *)
(* script of the page keeps in a browser.                                  *)
(*                                                                         *)
(* Strings of the source that are not ASCII are transliterated.  An        *)
(* Optional[str] is a sequence of length 0 (None) or 1 (the string).  A    *)
(* row is a record of the columns the handlers use; created_at, and the id *)
(* of the rows of user_interactions and event_registrations, are left out. *)
(***************************************************************************)
EXTENDS Integers, Sequences, FiniteSets, TLC

VARIABLES
    events,               \* table events, in rowid order
    businesses,           \* table businesses, in rowid order
    user_interactions,    \* table user_interactions, in rowid order
    event_registrations,  \* table event_registrations, in rowid order
    schema,               \* the tables of the store, each with its columns
    resp,                 \* the response last delivered to a caller
    sessionId,            \* the page's sessionId, None while no page is loaded
    cookies               \* the session_id cookie of the browser, None without one

vars == <<events, businesses, user_interactions, event_registrations, schema, resp,
          sessionId, cookies>>
client == <<sessionId, cookies>>
tables == <<events, businesses, user_interactions, event_registrations>>

(***************************************************************************)
(* Bounds of the model.                                                    *)
(***************************************************************************)
MaxEvents == 1          \* rows submit may add to events
MaxBusinesses == 1      \* rows submit may add to businesses
MaxInteractions == 2    \* rows track may add to user_interactions
TokenSpan == 1          \* outcomes of random.randint that are drawn
ExtraRows == 1          \* rows beyond the LIMIT in a sampled content table
MaxHistory == 5         \* interactions of one session in a sampled history

(***************************************************************************)
(* Constants of the program.                                               *)
(***************************************************************************)
RandLo == 100000        \* random.randint(100000, 999999)
RecLimit == 6           \* LIMIT 6 of the content queries
TopCategories == 3      \* LIMIT 3 of the category query
MaxTitleLen == 200      \* Field(..., max_length=200)

None == <<>>
Some(x) == <<x>>

NotFoundDetail == "Oqiga tabylmady"
RegisterMessage == "Tirkelu satti oryndaldy!"
SubmitMessage == "Otinim satti zhariyalandy!"
LockedText == "database is locked"
ValidationText == "validation error"
DefaultCategory == "Basqa"

(***************************************************************************)
(* Inputs.                                                                 *)
(***************************************************************************)
Categories == {"Music", "Sport"}
TrackCategories == {None, Some("Music")}
SessionIds == {"s1", "s2"}
CookieSessions == {"s1"}
ItemTypes == {"event", "business"}
InteractionTypes == {"view", "click", "save"}
ItemIds == 1..(MaxEvents + 1)
TrackItemIds == 1..MaxEvents
RecSessions == SessionIds
TieBreaks == {"asc", "desc"}
TrackFaults == {"insert", "update", "commit"}

NoResp == [op |-> "none", status |-> 0]

(***************************************************************************)
(* init_database().  The statements are DDL, which sqlite3 runs outside a  *)
(* transaction: each takes effect when it returns.  st is the store as the *)
(* statements so far have left it, st.raised telling that one has raised,  *)
(* which ends the function.                                                *)
(***************************************************************************)
EventColumns ==
    {"id", "title", "description", "date_time", "location", "category",
     "image_data", "is_published", "view_count", "created_at"}
BusinessColumns ==
    {"id", "name", "category", "description", "contact_instagram",
     "contact_whatsapp", "logo_data", "is_published", "view_count", "created_at"}
InteractionColumns ==
    {"id", "session_id", "item_type", "item_id", "interaction_type", "category",
     "created_at"}
RegistrationColumns == {"id", "event_id", "session_id", "created_at"}

\* the store as init_database() leaves an empty database file
CurrentSchema ==
    [t \in {"events", "businesses", "user_interactions", "event_registrations"} |->
        CASE t = "events" -> EventColumns
          [] t = "businesses" -> BusinessColumns
          [] t = "user_interactions" -> InteractionColumns
          [] t = "event_registrations" -> RegistrationColumns]

\* SELECT name FROM sqlite_master WHERE type='table' AND name=?
TableExists(sch, name) == name \in DOMAIN sch

\* CREATE TABLE IF NOT EXISTS <name> (<columns>)
CreateTableIfNotExists(st, name, columns) ==
    IF st.raised \/ TableExists(st.schema, name) THEN st
    ELSE [st EXCEPT !.schema = @ @@ (name :> columns)]

\* ALTER TABLE <name> ADD COLUMN <column> ... [DEFAULT <default>]: the rows
\* there are read with the default; sqlite3 raises OperationalError
\* (duplicate column name) when the table has the column
AlterTableAddColumn(st, name, column, default) ==
    IF column \in st.schema[name]
    THEN [st EXCEPT !.raised = TRUE]
    ELSE [st EXCEPT !.schema[name] = @ \cup {column},
                    ![name] = [i \in DOMAIN @ |-> @[i] @@ (column :> default)]]

\* as ProbeColumn, without the probe
AddColumnUnprobed(st, name, column, default) ==
    IF st.raised THEN st
    ELSE AlterTableAddColumn(st, name, column, default)

\* try: SELECT <column> FROM <name> LIMIT 1
\* except sqlite3.OperationalError: ALTER TABLE <name> ADD COLUMN <column> ...
ProbeColumn(st, name, column, default) ==
    IF st.raised \/ column \in st.schema[name] THEN st
    ELSE AlterTableAddColumn(st, name, column, default)

InitDatabase ==
    LET s0 == [schema |-> schema, events |-> events, businesses |-> businesses,
               raised |-> FALSE]
        events_exists == TableExists(schema, "events")
        businesses_exists == TableExists(schema, "businesses")
        s1 == CreateTableIfNotExists(s0, "events", EventColumns)
        s2 == IF events_exists
              THEN ProbeColumn(
                     ProbeColumn(
                       ProbeColumn(s1, "events", "category", DefaultCategory),
                       "events", "view_count", 0),
                     "events", "image_data", None)
              ELSE s1
        s3 == CreateTableIfNotExists(s2, "businesses", BusinessColumns)
        s4 == IF businesses_exists
              THEN ProbeColumn(
                     ProbeColumn(s3, "businesses", "view_count", 0),
                     "businesses", "logo_data", None)
              ELSE s3
        s5 == CreateTableIfNotExists(s4, "user_interactions", InteractionColumns)
        s6 == CreateTableIfNotExists(s5, "event_registrations", RegistrationColumns)
    IN
    /\ schema' = s6.schema
    /\ events' = s6.events
    /\ businesses' = s6.businesses
    /\ resp' = [op |-> "init_database", status |-> 0, raised |-> s6.raised,
                rerun |-> (resp.op = "init_database")]
    /\ UNCHANGED <<user_interactions, event_registrations>>

(***************************************************************************)
(* SQL statements of the handlers.                                         *)
(***************************************************************************)

\* as InsertEvent, with the row held back as a draft
InsertEventDraft(tbl, e) ==
    Append(tbl, [id |-> Len(tbl) + 1,
                 title |-> e.title,
                 description |-> e.description,
                 date_time |-> e.date_time,
                 location |-> e.location,
                 category |-> e.category,
                 image_data |-> e.image_data,
                 is_published |-> FALSE,
                 view_count |-> 0])

\* INSERT INTO events (...) VALUES (..., TRUE); view_count takes its DEFAULT 0
InsertEvent(tbl, e) ==
    Append(tbl, [id |-> Len(tbl) + 1,
                 title |-> e.title,
                 description |-> e.description,
                 date_time |-> e.date_time,
                 location |-> e.location,
                 category |-> e.category,
                 image_data |-> e.image_data,
                 is_published |-> TRUE,
                 view_count |-> 0])

\* INSERT INTO businesses (...) VALUES (..., TRUE)
InsertBusiness(tbl, b) ==
    Append(tbl, [id |-> Len(tbl) + 1,
                 name |-> b.name,
                 category |-> b.category,
                 description |-> b.description,
                 contact_instagram |-> b.contact_instagram,
                 contact_whatsapp |-> b.contact_whatsapp,
                 logo_data |-> b.logo_data,
                 is_published |-> TRUE,
                 view_count |-> 0])

\* as InsertInteraction, with a foreign-key check on item_id
InsertInteractionChecked(tbl, session_id, interaction) ==
    IF \E i \in DOMAIN (IF interaction.item_type = "event" THEN events ELSE businesses) :
            i = interaction.item_id
    THEN Append(tbl, [session_id |-> session_id,
                      item_type |-> interaction.item_type,
                      item_id |-> interaction.item_id,
                      interaction_type |-> interaction.interaction_type,
                      category |-> interaction.category])
    ELSE tbl

\* INSERT INTO user_interactions (session_id, item_type, item_id, interaction_type, category)
InsertInteraction(tbl, session_id, interaction) ==
    Append(tbl, [session_id |-> session_id,
                 item_type |-> interaction.item_type,
                 item_id |-> interaction.item_id,
                 interaction_type |-> interaction.interaction_type,
                 category |-> interaction.category])

\* as UpdateViewCount, with view_count - 1
UpdateViewCountDown(tbl, id) ==
    [i \in DOMAIN tbl |->
        IF tbl[i].id = id THEN [tbl[i] EXCEPT !.view_count = @ - 1] ELSE tbl[i]]

\* as UpdateViewCount, writing back a count read before the first view
UpdateViewCountStale(tbl, id) ==
    [i \in DOMAIN tbl |->
        IF tbl[i].id = id THEN [tbl[i] EXCEPT !.view_count = 1] ELSE tbl[i]]

\* UPDATE <table> SET view_count = view_count + 1 WHERE id = ?
UpdateViewCount(tbl, id) ==
    [i \in DOMAIN tbl |->
        IF tbl[i].id = id THEN [tbl[i] EXCEPT !.view_count = @ + 1] ELSE tbl[i]]

\* as SelectPublishedEvent, without the condition on id
SelectAnyPublishedEvent(tbl, id) ==
    {i \in DOMAIN tbl : tbl[i].is_published}

\* SELECT id FROM events WHERE id = ? AND is_published = TRUE
SelectPublishedEvent(tbl, id) ==
    {i \in DOMAIN tbl : tbl[i].id = id /\ tbl[i].is_published}

\* the UNIQUE(event_id, session_id) constraint of event_registrations
HasRegistration(tbl, event_id, session_id) ==
    \E i \in DOMAIN tbl :
        tbl[i].event_id = event_id /\ tbl[i].session_id = session_id

\* as InsertOrIgnoreRegistration, on a table without the UNIQUE constraint
InsertRegistration(tbl, event_id, session_id) ==
    Append(tbl, [event_id |-> event_id, session_id |-> session_id])

\* INSERT OR IGNORE INTO event_registrations (event_id, session_id)
InsertOrIgnoreRegistration(tbl, event_id, session_id) ==
    IF HasRegistration(tbl, event_id, session_id)
    THEN tbl
    ELSE Append(tbl, [event_id |-> event_id, session_id |-> session_id])

(***************************************************************************)
(* POST /api/track.  The handlers are coroutines with no await between     *)
(* their statements and the server is one process (uvicorn.run(app)), so a *)
(* handler runs to its end before the next request is served: the steps of *)
(* an execution are whole requests, in any order.  A handler's statements  *)
(* run in one transaction of its own connection, which get_db() closes     *)
(* without commit when a statement raises: sqlite3 then rolls back.        *)
(***************************************************************************)

\* as TrackSessionId, generating a token whether or not a cookie came
TrackSessionIdFresh(cookie, rnd) ==
    "session_" \o ToString(rnd)

\* request.cookies.get("session_id", f"session_{random.randint(100000, 999999)}")
TrackSessionId(cookie, rnd) ==
    IF cookie # None THEN cookie[1] ELSE "session_" \o ToString(rnd)

\* as TrackStatements, without the test of interaction_type
TrackStatementsAnyType(session_id, interaction, fault) ==
    LET s0 == [events |-> events, businesses |-> businesses,
               user_interactions |-> user_interactions]
        s1 == IF fault = "insert" THEN s0
              ELSE [s0 EXCEPT !.user_interactions =
                        InsertInteraction(@, session_id, interaction)]
        s2 == IF fault \in {"insert", "update"}
              THEN s1
              ELSE IF interaction.item_type = "event"
              THEN [s1 EXCEPT !.events = UpdateViewCount(@, interaction.item_id)]
              ELSE [s1 EXCEPT !.businesses = UpdateViewCount(@, interaction.item_id)]
    IN s2

\* as TrackStatements, with the UPDATE run on both content tables
TrackStatementsBothTables(session_id, interaction, fault) ==
    LET s0 == [events |-> events, businesses |-> businesses,
               user_interactions |-> user_interactions]
        s1 == IF fault = "insert" THEN s0
              ELSE [s0 EXCEPT !.user_interactions =
                        InsertInteraction(@, session_id, interaction)]
        s2 == IF fault \in {"insert", "update"} \/ interaction.interaction_type # "view"
              THEN s1
              ELSE [s1 EXCEPT !.events = UpdateViewCount(@, interaction.item_id),
                              !.businesses = UpdateViewCount(@, interaction.item_id)]
    IN s2

\* the statements of the transaction, up to the one that raises (fault):
\* the tables as the connection sees them
TrackStatements(session_id, interaction, fault) ==
    LET s0 == [events |-> events, businesses |-> businesses,
               user_interactions |-> user_interactions]
        s1 == IF fault = "insert" THEN s0
              ELSE [s0 EXCEPT !.user_interactions =
                        InsertInteraction(@, session_id, interaction)]
        s2 == IF fault \in {"insert", "update"} \/ interaction.interaction_type # "view"
              THEN s1
              ELSE IF interaction.item_type = "event"
              THEN [s1 EXCEPT !.events = UpdateViewCount(@, interaction.item_id)]
              ELSE [s1 EXCEPT !.businesses = UpdateViewCount(@, interaction.item_id)]
    IN s2

\* as TrackCommitted, on a connection in autocommit mode: the statements
\* that ran before the one that raised stay
TrackCommittedPartial(session_id, interaction, fault) ==
    TrackStatements(session_id, interaction, fault)

\* conn.commit() when no statement raised; otherwise the rollback of close()
TrackCommitted(session_id, interaction, fault) ==
    IF fault = "none"
    THEN TrackStatements(session_id, interaction, fault)
    ELSE [events |-> events, businesses |-> businesses,
          user_interactions |-> user_interactions]

\* fault: the statement at which sqlite3 raises, "none" when none does; the
\* handler catches nothing, so the server answers 500
TrackInteraction(cookie, rnd, interaction, fault) ==
    LET session_id == TrackSessionId(cookie, rnd)
        committed == TrackCommitted(session_id, interaction, fault)
    IN
    /\ fault = "none" => Len(user_interactions) < MaxInteractions
    /\ events' = committed.events
    /\ businesses' = committed.businesses
    /\ user_interactions' = committed.user_interactions
    /\ resp' = IF fault = "none"
               THEN [op |-> "track", status |-> 200, success |-> TRUE,
                     session_id |-> session_id, set_cookie |-> session_id,
                     cookie |-> cookie, request |-> interaction]
               ELSE [op |-> "track", status |-> 500, success |-> FALSE]
    /\ UNCHANGED <<event_registrations, schema>>

(***************************************************************************)
(* POST /api/register-event.  Everything the body raises, the handler's    *)
(* own HTTPException included, is caught by "except Exception" and raised  *)
(* again as HTTPException(status_code=400, detail=str(e)).                 *)
(***************************************************************************)

\* raise HTTPException(status_code=404, detail=...); str(e) of Starlette's
\* HTTPException is "<status_code>: <detail>"
NotFoundException ==
    [type |-> "HTTPException", status_code |-> 404, detail |-> NotFoundDetail,
     text |-> "404: " \o NotFoundDetail]

\* sqlite3.OperationalError raised by execute() or commit()
StoreException ==
    [type |-> "OperationalError", text |-> LockedText]

\* pydantic.ValidationError raised by EventModel(**data) / BusinessModel(**data)
ValidationException ==
    [type |-> "ValidationError", text |-> ValidationText]

\* except Exception as e: raise HTTPException(status_code=400, detail=str(e))
ExceptHandler(op, exc) ==
    [op |-> op, status |-> 400, success |-> FALSE, detail |-> exc.text]

RegisterEvent(event_id, session_id, fault) ==
    LET registration == [event_id |-> event_id, session_id |-> session_id] IN
    /\ IF SelectPublishedEvent(events, event_id) = {}
       THEN /\ resp' = ExceptHandler("register_event", NotFoundException)
            /\ UNCHANGED event_registrations
       ELSE IF fault
       THEN /\ resp' = ExceptHandler("register_event", StoreException)
            /\ UNCHANGED event_registrations
       ELSE /\ event_registrations' =
                    InsertOrIgnoreRegistration(event_registrations, event_id, session_id)
            /\ resp' = [op |-> "register_event", status |-> 200, success |-> TRUE,
                        message |-> RegisterMessage,
                        rowcount |-> Len(event_registrations') - Len(event_registrations),
                        request |-> registration]
    /\ UNCHANGED <<events, businesses, user_interactions, schema>>

(***************************************************************************)
(* POST /api/submit.  data is the dict of the request: a key that is       *)
(* absent is None.  title and name are sequences of characters, so that    *)
(* their length can be taken, and so is date_time, so that its order as    *)
(* TEXT can be taken.                                                      *)
(***************************************************************************)

\* as EventModelValid, without max_length
EventModelValidNoMax(data) ==
    /\ data.title # None
    /\ Len(data.title[1]) >= 1
    /\ data.description # None
    /\ data.description[1] # ""
    /\ data.date_time # None
    /\ data.location # None
    /\ data.location[1] # ""

\* class EventModel: the Field constraints
EventModelValid(data) ==
    /\ data.title # None
    /\ Len(data.title[1]) >= 1
    /\ Len(data.title[1]) <= MaxTitleLen
    /\ data.description # None
    /\ data.description[1] # ""
    /\ data.date_time # None
    /\ data.location # None
    /\ data.location[1] # ""

\* EventModel(**submission.data)
EventModel(data) ==
    [title |-> data.title[1],
     description |-> data.description[1],
     date_time |-> data.date_time[1],
     location |-> data.location[1],
     category |-> IF data.category = None THEN DefaultCategory ELSE data.category[1],
     image_data |-> data.image_data]

\* class BusinessModel: the Field constraints
BusinessModelValid(data) ==
    /\ data.name # None
    /\ Len(data.name[1]) >= 1
    /\ Len(data.name[1]) <= MaxTitleLen
    /\ data.category # None
    /\ data.category[1] # ""
    /\ data.description # None
    /\ data.description[1] # ""

\* BusinessModel(**submission.data)
BusinessModel(data) ==
    [name |-> data.name[1],
     category |-> data.category[1],
     description |-> data.description[1],
     contact_instagram |-> data.contact_instagram,
     contact_whatsapp |-> data.contact_whatsapp,
     logo_data |-> data.logo_data]

SubmitApplication(type, data, fault) ==
    LET submission == [type |-> type, data |-> data]
        valid == IF type = "event" THEN EventModelValid(data)
                                   ELSE BusinessModelValid(data)
    IN
    /\ IF ~valid
       THEN /\ resp' = ExceptHandler("submit", ValidationException)
            /\ UNCHANGED <<events, businesses>>
       ELSE IF fault
       THEN /\ resp' = ExceptHandler("submit", StoreException)
            /\ UNCHANGED <<events, businesses>>
       ELSE /\ IF type = "event"
               THEN /\ events' = InsertEvent(events, EventModel(data))
                    /\ UNCHANGED businesses
               ELSE /\ businesses' = InsertBusiness(businesses, BusinessModel(data))
                    /\ UNCHANGED events
            /\ resp' = [op |-> "submit", status |-> 200, success |-> TRUE,
                        message |-> SubmitMessage, request |-> submission]
    /\ UNCHANGED <<user_interactions, event_registrations, schema>>

(***************************************************************************)
(* GET /api/recommendations/{session_id}.  SQL leaves the order of rows    *)
(* with equal sort keys open: a query draws it (tb), by rowid ascending or *)
(* descending.                                                             *)
(***************************************************************************)

\* as OrderByDesc, for ORDER BY <key> ASC
RECURSIVE OrderByAsc(_, _, _)
OrderByAsc(S, key, tb) ==
    IF S = {} THEN <<>>
    ELSE LET first == CHOOSE x \in S : \A y \in S \ {x} :
                        \/ key[x] < key[y]
                        \/ key[x] = key[y] /\ (IF tb = "asc" THEN x < y ELSE x > y)
         IN <<first>> \o OrderByAsc(S \ {first}, key, tb)

\* ORDER BY <key> DESC over the rows S (positions in the table)
RECURSIVE OrderByDesc(_, _, _)
OrderByDesc(S, key, tb) ==
    IF S = {} THEN <<>>
    ELSE LET first == CHOOSE x \in S : \A y \in S \ {x} :
                        \/ key[x] > key[y]
                        \/ key[x] = key[y] /\ (IF tb = "asc" THEN x < y ELSE x > y)
         IN <<first>> \o OrderByDesc(S \ {first}, key, tb)

\* LIMIT n
Limit(seq, n) == SubSeq(seq, 1, IF Len(seq) < n THEN Len(seq) ELSE n)

\* as SelectFavoriteCategories, counting the rows of every session
SelectFavoriteCategoriesAnySession(tbl, session_id, tb) ==
    LET rows == {i \in DOMAIN tbl : tbl[i].category # None}
        groups == {i \in rows :
                    \A j \in rows : tbl[j].category = tbl[i].category => i <= j}
        count == [g \in groups |->
                    Cardinality({i \in rows : tbl[i].category = tbl[g].category})]
        ordered == Limit(OrderByDesc(groups, count, tb), TopCategories)
    IN [k \in 1..Len(ordered) |-> tbl[ordered[k]].category[1]]

\* as SelectFavoriteCategories, without the LIMIT
SelectAllCategories(tbl, session_id, tb) ==
    LET rows == {i \in DOMAIN tbl :
                    tbl[i].session_id = session_id /\ tbl[i].category # None}
        groups == {i \in rows :
                    \A j \in rows : tbl[j].category = tbl[i].category => i <= j}
        count == [g \in groups |->
                    Cardinality({i \in rows : tbl[i].category = tbl[g].category})]
        ordered == OrderByDesc(groups, count, tb)
    IN [k \in 1..Len(ordered) |-> tbl[ordered[k]].category[1]]

\* SELECT category, COUNT(*) as count FROM user_interactions
\* WHERE session_id = ? AND category IS NOT NULL
\* GROUP BY category ORDER BY count DESC LIMIT 3;   [row[0] for row in ...]
SelectFavoriteCategories(tbl, session_id, tb) ==
    LET rows == {i \in DOMAIN tbl :
                    tbl[i].session_id = session_id /\ tbl[i].category # None}
        groups == {i \in rows :
                    \A j \in rows : tbl[j].category = tbl[i].category => i <= j}
        count == [g \in groups |->
                    Cardinality({i \in rows : tbl[i].category = tbl[g].category})]
        ordered == Limit(OrderByDesc(groups, count, tb), TopCategories)
    IN [k \in 1..Len(ordered) |-> tbl[ordered[k]].category[1]]

\* the columns the content queries select: all but is_published
SelectColumns(row) ==
    [f \in (DOMAIN row) \ {"is_published"} |-> row[f]]

\* SELECT ... FROM <table> WHERE is_published = TRUE ORDER BY view_count DESC LIMIT 6
SelectTrending(tbl, tb) ==
    LET rows == {i \in DOMAIN tbl : tbl[i].is_published}
        key == [i \in rows |-> tbl[i].view_count]
        ordered == Limit(OrderByDesc(rows, key, tb), RecLimit)
    IN [k \in 1..Len(ordered) |-> SelectColumns(tbl[ordered[k]])]

\* as SelectByCategories, falling back to the trending rows when no row has a
\* favorite category
SelectByCategoriesOrTrending(tbl, favorite_categories, tb) ==
    LET rows == {i \in DOMAIN tbl :
                    /\ tbl[i].is_published
                    /\ \E k \in DOMAIN favorite_categories :
                            tbl[i].category = favorite_categories[k]}
        all == {i \in DOMAIN tbl : tbl[i].is_published}
        used == IF rows = {} THEN all ELSE rows
        key == [i \in used |-> tbl[i].view_count]
        ordered == Limit(OrderByDesc(used, key, tb), RecLimit)
    IN [k \in 1..Len(ordered) |-> SelectColumns(tbl[ordered[k]])]

\* SELECT ... FROM <table> WHERE is_published = TRUE AND category IN (?, ...)
\* ORDER BY view_count DESC LIMIT 6
SelectByCategories(tbl, favorite_categories, tb) ==
    LET rows == {i \in DOMAIN tbl :
                    /\ tbl[i].is_published
                    /\ \E k \in DOMAIN favorite_categories :
                            tbl[i].category = favorite_categories[k]}
        key == [i \in rows |-> tbl[i].view_count]
        ordered == Limit(OrderByDesc(rows, key, tb), RecLimit)
    IN [k \in 1..Len(ordered) |-> SelectColumns(tbl[ordered[k]])]

\* as GetRecommendations, recording the lookup as an interaction of the session
GetRecommendationsRecorded(session_id, tb) ==
    /\ resp' = [op |-> "get_recommendations", status |-> 200,
                events |-> SelectTrending(events, tb[2]),
                businesses |-> SelectTrending(businesses, tb[3]),
                favorite_categories |->
                    SelectFavoriteCategories(user_interactions, session_id, tb[1]),
                request |-> [session_id |-> session_id]]
    /\ user_interactions' =
            Append(user_interactions,
                   [session_id |-> session_id, item_type |-> "event", item_id |-> 1,
                    interaction_type |-> "click", category |-> None])
    /\ UNCHANGED <<events, businesses, event_registrations, schema>>

GetRecommendations(session_id, tb) ==
    /\ LET favorite_categories ==
                SelectFavoriteCategories(user_interactions, session_id, tb[1])
       IN resp' = [op |-> "get_recommendations", status |-> 200,
                   events |-> IF favorite_categories = <<>>
                              THEN SelectTrending(events, tb[2])
                              ELSE SelectByCategories(events, favorite_categories, tb[2]),
                   businesses |-> IF favorite_categories = <<>>
                                  THEN SelectTrending(businesses, tb[3])
                                  ELSE SelectByCategories(businesses, favorite_categories, tb[3]),
                   favorite_categories |-> favorite_categories,
                   request |-> [session_id |-> session_id]]
    /\ UNCHANGED <<tables, schema>>

(***************************************************************************)
(* GET /api/events.  ORDER BY date_time compares the TEXT values under the *)
(* BINARY collation: code point by code point, a proper prefix first.      *)
(***************************************************************************)

\* the code points of the characters of the date_time strings drawn
CodePoint ==
    ("-" :> 45) @@ ("0" :> 48) @@ ("1" :> 49) @@ ("2" :> 50) @@ ("3" :> 51) @@
    ("4" :> 52) @@ ("5" :> 53) @@ ("6" :> 54) @@ ("7" :> 55) @@ ("8" :> 56) @@
    ("9" :> 57) @@ (":" :> 58) @@ ("T" :> 84)

\* a < b as TEXT
RECURSIVE TextLess(_, _)
TextLess(a, b) ==
    IF b = <<>> THEN FALSE
    ELSE IF a = <<>> THEN TRUE
    ELSE IF CodePoint[Head(a)] # CodePoint[Head(b)]
    THEN CodePoint[Head(a)] < CodePoint[Head(b)]
    ELSE TextLess(Tail(a), Tail(b))

\* ORDER BY <key> ASC over the rows S, the key being TEXT
RECURSIVE OrderByTextAsc(_, _, _)
OrderByTextAsc(S, key, tb) ==
    IF S = {} THEN <<>>
    ELSE LET first == CHOOSE x \in S : \A y \in S \ {x} :
                        \/ TextLess(key[x], key[y])
                        \/ key[x] = key[y] /\ (IF tb = "asc" THEN x < y ELSE x > y)
         IN <<first>> \o OrderByTextAsc(S \ {first}, key, tb)

\* "if category:" / "if session_id:" on an Optional[str]
Truthy(opt) == opt # None /\ opt[1] # ""

\* SELECT ... FROM events WHERE is_published = TRUE [AND category = ?]
\* ORDER BY date_time ASC
SelectEvents(tbl, category, tb) ==
    LET rows == IF Truthy(category)
                THEN {i \in DOMAIN tbl :
                        tbl[i].is_published /\ tbl[i].category = category[1]}
                ELSE {i \in DOMAIN tbl : tbl[i].is_published}
        key == [i \in rows |-> tbl[i].date_time]
        ordered == OrderByTextAsc(rows, key, tb)
    IN [k \in 1..Len(ordered) |-> SelectColumns(tbl[ordered[k]])]

\* SELECT id FROM event_registrations WHERE event_id = ? AND session_id = ?
SelectRegistration(tbl, event_id, session_id) ==
    {i \in DOMAIN tbl :
        tbl[i].event_id = event_id /\ tbl[i].session_id = session_id}

GetEvents(category, session_id, tb) ==
    /\ LET selected == SelectEvents(events, category, tb)
           is_registered ==
                [k \in DOMAIN selected |->
                    IF Truthy(session_id)
                    THEN SelectRegistration(event_registrations, selected[k].id,
                                            session_id[1]) # {}
                    ELSE FALSE]
       IN resp' = [op |-> "get_events", status |-> 200,
                   body |-> [k \in DOMAIN selected |->
                                selected[k] @@ ("is_registered" :> is_registered[k])],
                   request |-> [category |-> category, session_id |-> session_id]]
    /\ UNCHANGED <<tables, schema>>

(***************************************************************************)
(* GET /api/businesses and GET /api/categories.  The rows of the model do  *)
(* not hold created_at: the column is CURRENT_TIMESTAMP at the INSERT, in  *)
(* whole seconds, so it never decreases with the rowid; a query draws the  *)
(* seconds of the rows (clock) and the order of rows of one second (tb).   *)
(***************************************************************************)

\* the created_at values that the rows of a table may hold
Clocks(tbl) ==
    {clock \in [DOMAIN tbl -> 0..1] :
        \A i, j \in DOMAIN tbl : i <= j => clock[i] <= clock[j]}

\* SELECT ... FROM businesses WHERE is_published = TRUE [AND category = ?]
\* ORDER BY created_at DESC
SelectBusinesses(tbl, category, clock, tb) ==
    LET rows == IF Truthy(category)
                THEN {i \in DOMAIN tbl :
                        tbl[i].is_published /\ tbl[i].category = category[1]}
                ELSE {i \in DOMAIN tbl : tbl[i].is_published}
        key == [i \in rows |-> clock[i]]
        ordered == OrderByDesc(rows, key, tb)
    IN [k \in 1..Len(ordered) |-> SelectColumns(tbl[ordered[k]])]

GetBusinesses(category, clock, tb) ==
    /\ resp' = [op |-> "get_businesses", status |-> 200,
                body |-> SelectBusinesses(businesses, category, clock, tb),
                request |-> [category |-> category]]
    /\ UNCHANGED <<tables, schema>>

\* SELECT DISTINCT category FROM <table> WHERE is_published = TRUE;
\* [row[0] for row in cursor.fetchall()]
SelectDistinctCategory(tbl, tb) ==
    LET rows == {i \in DOMAIN tbl : tbl[i].is_published}
        first == {i \in rows :
                    \A j \in rows : tbl[j].category = tbl[i].category => i <= j}
        ordered == OrderByAsc(first, [i \in first |-> 0], tb)
    IN [k \in 1..Len(ordered) |-> tbl[ordered[k]].category]

GetCategories(tb) ==
    /\ resp' = [op |-> "get_categories", status |-> 200,
                events |-> SelectDistinctCategory(events, tb[1]),
                businesses |-> SelectDistinctCategory(businesses, tb[2])]
    /\ UNCHANGED <<tables, schema>>

(***************************************************************************)
(* The requests that are drawn.                                            *)
(***************************************************************************)
Concert == <<"C", "o", "n", "c", "e", "r", "t">>
June1 == <<"2", "0", "2", "5", "-", "0", "6", "-", "0", "1", "T", "1", "9", ":", "0", "0">>
Bakery == <<"B", "a", "k", "e", "r", "y">>

EventData ==
    {[title |-> t, description |-> Some("Live music"),
      date_time |-> Some(June1), location |-> Some("Main Square"),
      category |-> c, image_data |-> None] :
        t \in {None, Some(Concert)}, c \in {None, Some("Music")}} \ 
    {[title |-> None, description |-> Some("Live music"),
      date_time |-> Some(June1), location |-> Some("Main Square"),
      category |-> None, image_data |-> None]}

BusinessData ==
    {[name |-> Some(Bakery), category |-> c, description |-> Some("Fresh bread"),
      contact_instagram |-> None, contact_whatsapp |-> None, logo_data |-> None] :
        c \in {None, Some("Music")}}

Interactions ==
    [item_type : ItemTypes, item_id : TrackItemIds,
     interaction_type : InteractionTypes, category : TrackCategories]

\* the answer to a request that sqlite3 fails does not depend on the request
FaultedInteractions ==
    [item_type : ItemTypes, item_id : {1},
     interaction_type : {"view"}, category : {Some("Music")}]

Cookies == {None} \cup {Some(s) : s \in CookieSessions}

\* the cookies that answers of track have set: a caller sends one back
IssuedCookies ==
    {Some(user_interactions[i].session_id) : i \in DOMAIN user_interactions}
RandomDraws == RandLo..(RandLo + TokenSpan - 1)

Init ==
    /\ events = <<>>
    /\ businesses = <<>>
    /\ user_interactions = <<>>
    /\ event_registrations = <<>>
    /\ schema = CurrentSchema
    /\ resp = NoResp
    /\ sessionId = None
    /\ cookies = None

Next ==
    \/ \E cookie \in Cookies \cup IssuedCookies, rnd \in RandomDraws,
          interaction \in Interactions :
            /\ TrackInteraction(cookie, rnd, interaction, "none")
            /\ UNCHANGED client
    \/ \E interaction \in FaultedInteractions, fault \in TrackFaults :
            /\ TrackInteraction(None, RandLo, interaction, fault)
            /\ UNCHANGED client
    \/ \E event_id \in ItemIds, session_id \in SessionIds, fault \in BOOLEAN :
            /\ RegisterEvent(event_id, session_id, fault)
            /\ UNCHANGED client
    \/ \E data \in EventData, fault \in BOOLEAN :
            /\ (EventModelValid(data) /\ ~fault) => Len(events) < MaxEvents
            /\ SubmitApplication("event", data, fault)
            /\ UNCHANGED client
    \/ \E data \in BusinessData, fault \in BOOLEAN :
            /\ (BusinessModelValid(data) /\ ~fault) => Len(businesses) < MaxBusinesses
            /\ SubmitApplication("business", data, fault)
            /\ UNCHANGED client
    \/ \E session_id \in RecSessions, t \in TieBreaks :
            /\ GetRecommendations(session_id, <<t, t, t>>)
            /\ UNCHANGED client

Spec == Init /\ [][Next]_vars

(***************************************************************************)
(* get_recommendations as a function of the store: stores that a run of    *)
(* submit and track requests leaves, sampled, and the one request.  A      *)
(* sampled content table holds more rows than the LIMIT; every view_count  *)
(* is matched by the view rows of a cookie-less visitor, who sent the      *)
(* category of the item viewed; the history of session "s1" is views of an *)
(* id that no item has.                                                    *)
(***************************************************************************)
SampleRows == RecLimit + ExtraRows
ViewSamples == {0, 1}
HistoryCategories == {"Music", "Sport", "Food", "Art"}
Visitor == "session_" \o ToString(RandLo)

SampleEvent(i, c, v) ==
    [id |-> i, title |-> Concert, description |-> "Live music",
     date_time |-> June1, location |-> "Main Square",
     category |-> c, image_data |-> None, is_published |-> TRUE, view_count |-> v]

SampleBusiness(i, c, v) ==
    [id |-> i, name |-> Bakery, category |-> c, description |-> "Fresh bread",
     contact_instagram |-> None, contact_whatsapp |-> None, logo_data |-> None,
     is_published |-> TRUE, view_count |-> v]

\* the view rows behind the view counts of the rows i.. of a content table
RECURSIVE ViewsOf(_, _, _)
ViewsOf(tbl, item_type, i) ==
    IF i > Len(tbl) THEN <<>>
    ELSE [k \in 1..tbl[i].view_count |->
            [session_id |-> Visitor, item_type |-> item_type, item_id |-> tbl[i].id,
             interaction_type |-> "view", category |-> Some(tbl[i].category)]]
         \o ViewsOf(tbl, item_type, i + 1)

HistoryOf(session_id, h) ==
    [k \in 1..Len(h) |->
        [session_id |-> session_id, item_type |-> "event", item_id |-> SampleRows + 1,
         interaction_type |-> "view", category |-> h[k]]]

\* the rows of a sampled content table whose category is "Music"; the others
\* are "Sport"
MusicRows ==
    {{}, {2}, 1..TopCategories, {i \in 1..SampleRows : i % 2 = 1},
     1..RecLimit, 1..SampleRows}
CategoryOf(M, i) == IF i \in M THEN "Music" ELSE "Sport"

ContentHistories == {<<None>>, <<Some("Music")>>, <<Some("Food")>>}
Histories ==
    UNION {[1..n -> {None} \cup {Some(c) : c \in HistoryCategories}] : n \in 0..MaxHistory}

InitStore(ev, bz, h) ==
    /\ events = ev
    /\ businesses = bz
    /\ user_interactions =
            ViewsOf(ev, "event", 1) \o ViewsOf(bz, "business", 1) \o HistoryOf("s1", h)
    /\ event_registrations = <<>>
    /\ schema = CurrentSchema
    /\ resp = NoResp
    /\ sessionId = None
    /\ cookies = None

InitRec ==
    \/ \E M \in MusicRows, v \in [1..SampleRows -> ViewSamples],
          h \in ContentHistories :
        \/ InitStore([i \in 1..SampleRows |-> SampleEvent(i, CategoryOf(M, i), v[i])],
                     <<SampleBusiness(1, CategoryOf(M, 1), v[1])>>, h)
        \/ InitStore(<<SampleEvent(1, CategoryOf(M, 1), v[1])>>,
                     [i \in 1..SampleRows |-> SampleBusiness(i, CategoryOf(M, i), v[i])], h)
    \/ \E h \in Histories :
        InitStore(<<SampleEvent(1, "Music", 0)>>, <<SampleBusiness(1, "Sport", 0)>>, h)

NextRec ==
    \E session_id \in SessionIds \cup {Visitor}, t \in TieBreaks, u \in TieBreaks :
        /\ GetRecommendations(session_id, <<t, u, u>>)
        /\ UNCHANGED client

SpecRec == InitRec /\ [][NextRec]_vars

(***************************************************************************)
(* The event list: submissions with several date_time strings, valid and   *)
(* invalid, registrations (the session id may be the empty string: the     *)
(* model field is a plain str), views of the first event, and get_events.  *)
(***************************************************************************)
MaxListed == 2          \* rows submit may add to events here
MaxRegistrations == 2   \* rows register_event may add here

Oct1 == <<"2", "0", "2", "5", "-", "1", "0", "-", "0", "1">>
Sep1 == <<"2", "0", "2", "5", "-", "9", "-", "0", "1">>
Sep15 == <<"2", "0", "2", "5", "-", "0", "9", "-", "1", "5">>
LongTitle == [i \in 1..(MaxTitleLen + 1) |-> "x"]

ConcertData ==
    [title |-> Some(Concert), description |-> Some("Live music"),
     date_time |-> Some(Sep15), location |-> Some("Main Square"),
     category |-> Some("Music"), image_data |-> None]

\* submissions that EventModel accepts
ListedEventData ==
    {[ConcertData EXCEPT !.date_time = Some(d)] : d \in {Oct1, Sep1, Sep15, <<>>}}
        \cup {[ConcertData EXCEPT !.category = None]}

\* submissions that EventModel rejects
RejectedEventData ==
    {[ConcertData EXCEPT !.title = t] : t \in {None, Some(<<>>), Some(LongTitle)}}
        \cup {[ConcertData EXCEPT !.description = x] : x \in {None, Some("")}}
        \cup {[ConcertData EXCEPT !.location = x] : x \in {None, Some("")}}
        \cup {[ConcertData EXCEPT !.date_time = None]}

BakeryData ==
    [name |-> Some(Bakery), category |-> Some("Food"), description |-> Some("Fresh bread"),
     contact_instagram |-> None, contact_whatsapp |-> None, logo_data |-> None]

\* submissions that BusinessModel rejects
RejectedBusinessData ==
    {[BakeryData EXCEPT !.name = t] : t \in {None, Some(<<>>), Some(LongTitle)}}
        \cup {[BakeryData EXCEPT !.category = x] : x \in {None, Some("")}}
        \cup {[BakeryData EXCEPT !.description = x] : x \in {None, Some("")}}

EventSessions == {"", "s1"}
ListSessions == {None} \cup {Some(s) : s \in EventSessions}
ListCategories == {None, Some("Music")}
ListedIds == 1..(MaxListed + 1)
FirstView ==
    [item_type |-> "event", item_id |-> 1, interaction_type |-> "view",
     category |-> Some("Music")]

NextEvents ==
    \/ \E data \in ListedEventData \cup RejectedEventData, fault \in BOOLEAN :
            /\ (EventModelValid(data) /\ ~fault) => Len(events) < MaxListed
            /\ SubmitApplication("event", data, fault)
            /\ UNCHANGED client
    \/ \E data \in {BakeryData} \cup RejectedBusinessData, fault \in BOOLEAN :
            /\ (BusinessModelValid(data) /\ ~fault) => Len(businesses) < MaxBusinesses
            /\ SubmitApplication("business", data, fault)
            /\ UNCHANGED client
    \/ \E event_id \in ListedIds, session_id \in EventSessions :
            /\ Len(event_registrations) < MaxRegistrations
            /\ RegisterEvent(event_id, session_id, FALSE)
            /\ UNCHANGED client
    \/ /\ TrackInteraction(Some("s1"), RandLo, FirstView, "none")
       /\ UNCHANGED client
    \/ \E category \in ListCategories, session_id \in ListSessions, t \in TieBreaks :
            /\ GetEvents(category, session_id, t)
            /\ UNCHANGED client

SpecEvents == Init /\ [][NextEvents]_vars

(***************************************************************************)
(* The category filter: events and businesses are submitted with their     *)
(* categories (an event also without one, or with the empty string), the   *)
(* categories are listed, and the lists are read with a category.          *)
(***************************************************************************)
CategorizedEventData ==
    {[ConcertData EXCEPT !.category = c] : c \in {None, Some(""), Some("Music")}}
CategorizedBusinessData ==
    {[BakeryData EXCEPT !.category = c] : c \in {None, Some(""), Some("Food"), Some("Music")}}
FilterCategories ==
    {None} \cup {Some(c) : c \in {"", "Music", "Food", DefaultCategory, "Cinema"}}

NextCategories ==
    \/ \E data \in CategorizedEventData :
            /\ Len(events) < MaxListed
            /\ SubmitApplication("event", data, FALSE)
            /\ UNCHANGED client
    \/ \E data \in CategorizedBusinessData :
            /\ BusinessModelValid(data) => Len(businesses) < MaxListed
            /\ SubmitApplication("business", data, FALSE)
            /\ UNCHANGED client
    \/ \E t \in TieBreaks, u \in TieBreaks :
            /\ GetCategories(<<t, u>>)
            /\ UNCHANGED client
    \/ \E category \in FilterCategories, t \in TieBreaks :
            /\ GetEvents(category, None, t)
            /\ UNCHANGED client
    \/ \E category \in FilterCategories, clock \in Clocks(businesses), t \in TieBreaks :
            /\ GetBusinesses(category, clock, t)
            /\ UNCHANGED client

SpecCategories == Init /\ [][NextCategories]_vars

(***************************************************************************)
(* The page in one browser that starts without a session cookie.  Its      *)
(* script sets sessionId at every load; loadEvents and registerForEvent    *)
(* send sessionId, trackInteraction sends the cookies of the browser and   *)
(* the browser keeps the cookie that the response sets.                    *)
(***************************************************************************)

\* `session_${Math.floor(Math.random() * 900000) + 100000}`
ClientSessionId(rnd) == "session_" \o ToString(rnd)

\* let sessionId = getCookie('session_id') || `session_${...}`;
PageLoad(rnd) ==
    /\ sessionId' = Some(IF Truthy(cookies) THEN cookies[1] ELSE ClientSessionId(rnd))
    /\ UNCHANGED <<tables, schema, resp, cookies>>

\* loadEvents(), no category chosen
LoadEvents(tb) ==
    /\ sessionId # None
    /\ GetEvents(None, sessionId, tb)
    /\ UNCHANGED client

\* trackInteraction('event', id, 'view', category) of an event of the page
ClientTrack(i, rnd) ==
    /\ sessionId # None
    /\ TrackInteraction(cookies, rnd,
                        [item_type |-> "event", item_id |-> events[i].id,
                         interaction_type |-> "view",
                         category |-> Some(events[i].category)], "none")
    /\ cookies' = Some(resp'.set_cookie)
    /\ UNCHANGED sessionId

\* registerForEvent(eventId, buttonElement) of an event of the page
ClientRegister(i) ==
    /\ sessionId # None
    /\ Len(event_registrations) < MaxRegistrations
    /\ RegisterEvent(events[i].id, sessionId[1], FALSE)
    /\ UNCHANGED client

\* outcomes of Math.random() in the page and of random.randint in the
\* server that are drawn: both range over 100000..999999
PageDraws == RandLo..(RandLo + TokenSpan)

NextClient ==
    \/ /\ Len(events) < MaxListed
       /\ SubmitApplication("event", ConcertData, FALSE)
       /\ UNCHANGED client
    \/ \E rnd \in PageDraws : PageLoad(rnd)
    \/ \E t \in TieBreaks : LoadEvents(t)
    \/ \E i \in DOMAIN events, rnd \in PageDraws : ClientTrack(i, rnd)
    \/ \E i \in DOMAIN events : ClientRegister(i)

SpecClient == Init /\ [][NextClient]_vars

(***************************************************************************)
(* init_database() on the database file it finds: none, or one that a run  *)
(* of this or of an older version of the program left, whose content       *)
(* tables may lack the columns added since, and which may lack the two log *)
(* tables.  A row of an older table holds the columns of its table.        *)
(***************************************************************************)
MaxOldRows == 2         \* rows of a content table found

EventOptional == {"category", "view_count", "image_data"}
BusinessOptional == {"category", "view_count", "logo_data"}

OldEvent(i) ==
    [id |-> i, title |-> Concert, description |-> "Live music", date_time |-> June1,
     location |-> "Main Square", category |-> "Music", image_data |-> Some("data:,"),
     is_published |-> TRUE, view_count |-> i]

OldBusiness(i) ==
    [id |-> i, name |-> Bakery, category |-> "Food", description |-> "Fresh bread",
     contact_instagram |-> None, contact_whatsapp |-> None, logo_data |-> Some("data:,"),
     is_published |-> TRUE, view_count |-> i]

\* the columns of row that the table has
Restrict(row, columns) == [f \in (DOMAIN row) \cap columns |-> row[f]]

OldLog ==
    <<[session_id |-> "s1", item_type |-> "event", item_id |-> 1,
       interaction_type |-> "click", category |-> Some("Music")]>>

InitOld ==
    \E ev \in BOOLEAN, em \in SUBSET EventOptional, en \in {0, MaxOldRows},
       bz \in BOOLEAN, bm \in SUBSET BusinessOptional, bn \in {0, MaxOldRows},
       logs \in BOOLEAN :
        /\ schema =
                [t \in (IF ev THEN {"events"} ELSE {})
                        \cup (IF bz THEN {"businesses"} ELSE {})
                        \cup (IF logs THEN {"user_interactions", "event_registrations"}
                                      ELSE {}) |->
                    CASE t = "events" -> EventColumns \ em
                      [] t = "businesses" -> BusinessColumns \ bm
                      [] OTHER -> CurrentSchema[t]]
        /\ events = IF ev THEN [i \in 1..en |-> Restrict(OldEvent(i), EventColumns \ em)]
                           ELSE <<>>
        /\ businesses =
                IF bz THEN [i \in 1..bn |-> Restrict(OldBusiness(i), BusinessColumns \ bm)]
                      ELSE <<>>
        /\ user_interactions = IF logs THEN OldLog ELSE <<>>
        /\ event_registrations = <<>>
        /\ resp = NoResp
        /\ sessionId = None
        /\ cookies = None

NextInit == InitDatabase /\ UNCHANGED client

SpecInit == InitOld /\ [][NextInit]_vars

(***************************************************************************)
(* Properties.                                                             *)
(***************************************************************************)

\* the rows of event_registrations for the pair (event_id, session_id)
RegistrationRows(event_id, session_id) ==
    {i \in DOMAIN event_registrations :
        /\ event_registrations[i].event_id = event_id
        /\ event_registrations[i].session_id = session_id}

\* no row of events is a published event with this id
NoPublishedEvent(event_id) ==
    ~ \E i \in DOMAIN events : events[i].id = event_id /\ events[i].is_published

\* C1: in every reachable state event_registrations holds at most one row
\* for each pair (event_id, session_id).
C1_RegistrationsUnique ==
    \A i, j \in DOMAIN event_registrations :
        (/\ event_registrations[i].event_id = event_registrations[j].event_id
         /\ event_registrations[i].session_id = event_registrations[j].session_id)
            => i = j

\* a duplicate registration was absorbed while two sessions are registered
C1_Witness ==
    /\ resp.op = "register_event"
    /\ resp.success
    /\ resp.rowcount = 0
    /\ Len(event_registrations) >= 2

C3_RegisterUnknownEventFails ==
    [][\A e \in ItemIds, s \in SessionIds, f \in BOOLEAN :
        (RegisterEvent(e, s, f) /\ NoPublishedEvent(e))
            => /\ ~resp'.success
               /\ resp'.status # 200
               /\ tables' = tables]_vars

\* a registration for an id that no event has was refused while the store
\* holds an event and a registration
C3_Witness ==
    /\ resp.op = "register_event"
    /\ ~resp.success
    /\ resp.detail = NotFoundException.text
    /\ events # <<>>
    /\ event_registrations # <<>>

\* C4: when register_event fails because the event does not exist, the
\* caller receives the not-found condition the handler raises: status 404
\* with the not-found detail (a store error being status 400 with its text).
C4_NotFoundDelivered ==
    [][\A e \in ItemIds, s \in SessionIds, f \in BOOLEAN :
        (RegisterEvent(e, s, f) /\ NoPublishedEvent(e))
            => /\ resp'.status = NotFoundException.status_code
               /\ resp'.detail = NotFoundException.detail]_vars

\* the step is a successful track of a view of the item (item_type, id)
IsViewTrack(item_type, id) ==
    /\ resp'.op = "track"
    /\ resp'.success
    /\ resp'.request.interaction_type = "view"
    /\ resp'.request.item_type = item_type
    /\ resp'.request.item_id = id

\* C5: every request served, whatever its kind and session, changes the
\* view_count of an existing item by exactly 1 when it is a successful view
\* track of that item and by 0 otherwise; so N such calls raise it by
\* exactly N in any interleaving with other requests.
C5_ViewCountExact ==
    [][/\ Len(events') >= Len(events)
       /\ Len(businesses') >= Len(businesses)
       /\ \A i \in DOMAIN events :
            events'[i].view_count = events[i].view_count
                + (IF IsViewTrack("event", events[i].id) THEN 1 ELSE 0)
       /\ \A i \in DOMAIN businesses :
            businesses'[i].view_count = businesses[i].view_count
                + (IF IsViewTrack("business", businesses[i].id) THEN 1 ELSE 0)]_vars

\* two views of one event by two sessions, with a registration in the store
C5_Witness ==
    /\ Len(user_interactions) = 2
    /\ user_interactions[1].session_id # user_interactions[2].session_id
    /\ events # <<>>
    /\ events[1].view_count = 2
    /\ event_registrations # <<>>

\* C9: get_recommendations answers every session id with a result (status
\* 200) and leaves events, businesses, user_interactions and
\* event_registrations unchanged.
C9_RecommendationsPureRead ==
    [][resp'.op = "get_recommendations"
        => /\ resp'.status = 200
           /\ tables' = tables]_vars

\* a session that no table knows was answered from a store that is not empty
C9_Witness ==
    /\ resp.op = "get_recommendations"
    /\ resp.status = 200
    /\ user_interactions # <<>>
    /\ events # <<>>
    /\ \A i \in DOMAIN user_interactions :
            user_interactions[i].session_id # resp.request.session_id
    /\ \A i \in DOMAIN event_registrations :
            event_registrations[i].session_id # resp.request.session_id

\* C10: every successful track call appends exactly one row to
\* user_interactions, carrying the session id of the call and the
\* item_type, item_id, interaction_type and category of its body, whether
\* or not the item exists.
C10_TrackAppendsRow ==
    [][(resp'.op = "track" /\ resp'.success)
        => user_interactions' =
                Append(user_interactions,
                       [session_id |-> resp'.session_id,
                        item_type |-> resp'.request.item_type,
                        item_id |-> resp'.request.item_id,
                        interaction_type |-> resp'.request.interaction_type,
                        category |-> resp'.request.category])]_vars

\* a track of an event that does not exist was recorded with its category
C10_Witness ==
    /\ resp.op = "track"
    /\ resp.success
    /\ resp.request.item_type = "event"
    /\ events = <<>>
    /\ resp.request.category # None
    /\ user_interactions # <<>>
    /\ user_interactions[Len(user_interactions)].item_id = resp.request.item_id
\* the published rows of a content table
Published(tbl) == {i \in DOMAIN tbl : tbl[i].is_published}

\* list holds min(6, |cand|) distinct rows of tbl among cand, and no row
\* of cand left out has a strictly higher view_count than a row of list
IsTopSelection(list, tbl, cand) ==
    /\ Len(list) = (IF Cardinality(cand) < 6 THEN Cardinality(cand) ELSE 6)
    /\ \A k \in DOMAIN list : \E i \in cand :
            /\ list[k].id = tbl[i].id
            /\ list[k].category = tbl[i].category
            /\ list[k].view_count = tbl[i].view_count
    /\ \A k, l \in DOMAIN list : list[k].id = list[l].id => k = l
    /\ \A i \in cand :
            (\A k \in DOMAIN list : list[k].id # tbl[i].id)
                => \A k \in DOMAIN list : tbl[i].view_count <= list[k].view_count

\* C6: for a session with no recorded interactions get_recommendations
\* returns favorite_categories = [] and, as events and as businesses, the
\* (at most 6) published rows with the highest view_count of the store.
C6_ColdStartTrending ==
    (/\ resp.op = "get_recommendations"
     /\ \A i \in DOMAIN user_interactions :
            user_interactions[i].session_id # resp.request.session_id)
        => /\ resp.favorite_categories = <<>>
           /\ IsTopSelection(resp.events, events, Published(events))
           /\ IsTopSelection(resp.businesses, businesses, Published(businesses))

\* a session without interactions got 6 of more than 6 events, a viewed one
\* among them and one that ties with a returned event left out
C6_Witness ==
    /\ resp.op = "get_recommendations"
    /\ \A i \in DOMAIN user_interactions :
            user_interactions[i].session_id # resp.request.session_id
    /\ Len(events) > 6
    /\ Len(resp.events) = 6
    /\ resp.events[1].view_count = 1
    /\ resp.events[6].view_count = 0

\* the categories of a list of favorite categories
InFavorites(favs, c) == \E k \in DOMAIN favs : favs[k] = c

\* C7: when get_recommendations returns a non-empty favorite_categories,
\* each list has at most 6 items, all of a favorite category, and is the
\* top-by-view_count selection of the published rows of a favorite category
\* (empty when there is none).
C7_FavoritesRestrict ==
    (resp.op = "get_recommendations" /\ resp.favorite_categories # <<>>)
        => LET favs == resp.favorite_categories IN
           /\ Len(resp.events) <= 6
           /\ Len(resp.businesses) <= 6
           /\ \A k \in DOMAIN resp.events : InFavorites(favs, resp.events[k].category)
           /\ \A k \in DOMAIN resp.businesses :
                    InFavorites(favs, resp.businesses[k].category)
           /\ IsTopSelection(resp.events, events,
                    {i \in Published(events) : InFavorites(favs, events[i].category)})
           /\ IsTopSelection(resp.businesses, businesses,
                    {i \in Published(businesses) :
                        InFavorites(favs, businesses[i].category)})

\* favorites that no business has gave an empty business list, and the
\* events returned leave out an event viewed more often than one returned
C7_Witness ==
    /\ resp.op = "get_recommendations"
    /\ resp.favorite_categories # <<>>
    /\ businesses # <<>>
    /\ resp.businesses = <<>>
    /\ resp.events # <<>>
    /\ \E i \in DOMAIN events, k \in DOMAIN resp.events :
            /\ ~InFavorites(resp.favorite_categories, events[i].category)
            /\ events[i].view_count > resp.events[k].view_count

\* the interactions of a session that carry the category c
CategoryCount(session_id, c) ==
    Cardinality({i \in DOMAIN user_interactions :
                    /\ user_interactions[i].session_id = session_id
                    /\ user_interactions[i].category = Some(c)})

\* the categories that the interactions of a session carry
CategoriesOf(session_id) ==
    {user_interactions[i].category[1] :
        i \in {j \in DOMAIN user_interactions :
                /\ user_interactions[j].session_id = session_id
                /\ user_interactions[j].category # None}}

\* C8: favorite_categories of a session is a list without duplicates of at
\* most 3 categories, each carried by an interaction of the session, in
\* order of non-increasing count, and no category left out has a strictly
\* higher count than one included; three views carrying C and nothing else
\* give [C].
C8_FavoriteCategories ==
    resp.op = "get_recommendations"
        => LET s == resp.request.session_id
               favs == resp.favorite_categories
               mine == {i \in DOMAIN user_interactions :
                            user_interactions[i].session_id = s}
           IN
           /\ Len(favs) <= 3
           /\ \A k, l \in DOMAIN favs : favs[k] = favs[l] => k = l
           /\ \A k \in DOMAIN favs : CategoryCount(s, favs[k]) >= 1
           /\ \A k, l \in DOMAIN favs :
                k < l => CategoryCount(s, favs[k]) >= CategoryCount(s, favs[l])
           /\ \A c \in CategoriesOf(s) :
                ~InFavorites(favs, c)
                    => \A k \in DOMAIN favs :
                            CategoryCount(s, c) <= CategoryCount(s, favs[k])
           /\ \A c \in CategoriesOf(s) :
                (/\ Cardinality(mine) = 3
                 /\ \A i \in mine :
                        /\ user_interactions[i].interaction_type = "view"
                        /\ user_interactions[i].category = Some(c))
                    => favs = <<c>>

\* three of the four categories of a session were returned, the first
\* counted more often than the last
C8_Witness ==
    /\ resp.op = "get_recommendations"
    /\ Cardinality(CategoriesOf(resp.request.session_id)) = 4
    /\ Len(resp.favorite_categories) = 3
    /\ CategoryCount(resp.request.session_id, resp.favorite_categories[1])
            > CategoryCount(resp.request.session_id, resp.favorite_categories[3])

\* the view_count column of a content table, row by row
ViewCounts(tbl) == [i \in DOMAIN tbl |-> tbl[i].view_count]

\* C11: a track call whose interaction_type is "click" or "save" leaves the
\* view_count of every event and of every business unchanged.
C11_ClickSaveKeepCounts ==
    [][(/\ resp'.op = "track"
        /\ resp'.success
        /\ resp'.request.interaction_type \in {"click", "save"})
        => /\ ViewCounts(events') = ViewCounts(events)
           /\ ViewCounts(businesses') = ViewCounts(businesses)]_vars

\* an event that was viewed once has been saved, and still counts one view
C11_Witness ==
    /\ resp.op = "track"
    /\ resp.success
    /\ resp.request.interaction_type = "save"
    /\ resp.request.item_type = "event"
    /\ events # <<>>
    /\ resp.request.item_id = events[1].id
    /\ events[1].view_count = 1

\* tbl with the view_count of the rows whose id is id raised by one
WithOneMoreView(tbl, id) ==
    [i \in DOMAIN tbl |->
        [f \in DOMAIN tbl[i] |->
            IF f = "view_count" /\ tbl[i].id = id THEN tbl[i][f] + 1 ELSE tbl[i][f]]]

GeneratedTokens == {"session_" \o ToString(n) : n \in RandomDraws}

\* C13: a track call that carries the session cookie s records its
\* interaction under s and returns and sets s again; a call that carries no
\* cookie records its interaction under a generated token t and returns and
\* sets t; so a later call, which carries t, is recorded under t.
C13_SessionContinuity ==
    [][(resp'.op = "track" /\ resp'.success)
        => /\ user_interactions' # <<>>
           /\ user_interactions'[Len(user_interactions')].session_id = resp'.session_id
           /\ resp'.set_cookie = resp'.session_id
           /\ resp'.cookie # None => resp'.session_id = resp'.cookie[1]
           /\ resp'.cookie = None => resp'.session_id \in GeneratedTokens]_vars

\* a call carried the token that an earlier answer had set, and both
\* interactions are recorded under that token
C13_Witness ==
    /\ resp.op = "track"
    /\ resp.success
    /\ resp.cookie # None
    /\ resp.cookie[1] \in GeneratedTokens
    /\ Len(user_interactions) = 2
    /\ user_interactions[1].session_id = resp.cookie[1]
    /\ user_interactions[2].session_id = resp.cookie[1]
    /\ resp.set_cookie = resp.cookie[1]

\* C14: the token that track generates for a caller without a session
\* cookie differs from every session_id that user_interactions or
\* event_registrations holds already.
C14_TokenIsNew ==
    [][(resp'.op = "track" /\ resp'.success /\ resp'.cookie = None)
        => /\ \A i \in DOMAIN user_interactions :
                user_interactions[i].session_id # resp'.session_id
           /\ \A i \in DOMAIN event_registrations :
                event_registrations[i].session_id # resp'.session_id]_vars

\* C15: for every session id s that register_event accepts, the empty
\* string included, each event that get_events returns for session_id = s
\* has is_registered true exactly when a registration row (id, s) exists;
\* without a session_id every is_registered is false.
C15_IsRegisteredExact ==
    resp.op = "get_events"
        => \A k \in DOMAIN resp.body :
                resp.body[k].is_registered
                    <=> /\ resp.request.session_id # None
                        /\ RegistrationRows(resp.body[k].id,
                                            resp.request.session_id[1]) # {}

\* the numbers a date_time string holds, in order: year, month, day, ...
RECURSIVE NumberFields(_, _, _)
NumberFields(text, n, open) ==
    IF text = <<>> THEN (IF open THEN <<n>> ELSE <<>>)
    ELSE IF CodePoint[Head(text)] \in 48..57
    THEN NumberFields(Tail(text), 10 * n + (CodePoint[Head(text)] - 48), TRUE)
    ELSE (IF open THEN <<n>> ELSE <<>>) \o NumberFields(Tail(text), 0, FALSE)

RECURSIVE FieldsLess(_, _)
FieldsLess(x, y) ==
    IF x = <<>> \/ y = <<>> THEN FALSE
    ELSE IF Head(x) # Head(y) THEN Head(x) < Head(y)
    ELSE FieldsLess(Tail(x), Tail(y))

\* both strings name a date, and a names the earlier one
Earlier(a, b) ==
    /\ Len(NumberFields(a, 0, FALSE)) >= 3
    /\ Len(NumberFields(b, 0, FALSE)) >= 3
    /\ FieldsLess(NumberFields(a, 0, FALSE), NumberFields(b, 0, FALSE))

\* C16: get_events returns exactly the published events, those of the
\* given category when one is given, soonest first: no event with a later
\* date_time comes before an event with an earlier one, whatever date_time
\* strings submit accepted.
C16_ListedSoonestFirst ==
    resp.op = "get_events"
        => LET listed == {i \in Published(events) :
                            resp.request.category # None
                                => events[i].category = resp.request.category[1]}
           IN
           /\ Len(resp.body) = Cardinality(listed)
           /\ {resp.body[k].id : k \in DOMAIN resp.body}
                    = {events[i].id : i \in listed}
           /\ \A k, l \in DOMAIN resp.body :
                    k < l => ~Earlier(resp.body[l].date_time, resp.body[k].date_time)

\* a required field of a business is missing or empty, or the name too long
BusinessFieldsViolated(data) ==
    \/ data.name = None
    \/ data.name # None /\ (data.name[1] = <<>> \/ Len(data.name[1]) > 200)
    \/ data.category = None
    \/ data.category = Some("")
    \/ data.description = None
    \/ data.description = Some("")

\* a required field of an event is missing, title, description or location
\* is empty, or the title too long
EventFieldsViolated(data) ==
    \/ data.title = None
    \/ data.title # None /\ (data.title[1] = <<>> \/ Len(data.title[1]) > 200)
    \/ data.description = None
    \/ data.description = Some("")
    \/ data.location = None
    \/ data.location = Some("")
    \/ data.date_time = None

\* the data of the submit that the step answered with success
Accepted(type) ==
    IF resp'.op = "submit" /\ resp'.success /\ resp'.request.type = type
    THEN {resp'.request.data}
    ELSE {}

\* C17 (as amended): a submit whose data lacks title, description, location
\* or date_time of an event, or name, category or description of a
\* business, or holds an empty title, description, location, name or
\* category, or a title or name longer than 200 characters, fails with a
\* client-error response and writes no row to any table: no submit of such
\* data is answered with success, and a submit that fails is answered with
\* a status of 400..499 and leaves every table as it was.
C17_InvalidSubmitRejected ==
    [][/\ \A data \in Accepted("event") : ~EventFieldsViolated(data)
       /\ \A data \in Accepted("business") : ~BusinessFieldsViolated(data)
       /\ (resp'.op = "submit" /\ ~resp'.success)
            => /\ resp'.status \in 400..499
               /\ tables' = tables]_vars

\* a submission was refused by the model class while the store holds an
\* event and a business
C17_Witness ==
    /\ resp.op = "submit"
    /\ ~resp.success
    /\ resp.detail = ValidationException.text
    /\ events # <<>>
    /\ businesses # <<>>

\* C17 (as claimed): the same, an empty date_time of an event included.
C17_EmptyDateTimeRejected ==
    [][/\ \A data \in Accepted("event") :
            ~(EventFieldsViolated(data) \/ data.date_time = Some(<<>>))
       /\ \A data \in Accepted("business") : ~BusinessFieldsViolated(data)
       /\ (resp'.op = "submit" /\ ~resp'.success)
            => /\ resp'.status \in 400..499
               /\ tables' = tables]_vars

\* C18: a successful submit adds exactly one row, to the table its type
\* names, and changes nothing else; the row is published with view_count 0,
\* so the get_events that follows at once (with no category or the row's)
\* lists a submitted event with view_count 0, and with is_registered false
\* for a session that has not registered for it.
C18_SubmitPublishes ==
    [][/\ (resp'.op = "submit" /\ resp'.success)
            => /\ user_interactions' = user_interactions
               /\ event_registrations' = event_registrations
               /\ IF resp'.request.type = "event"
                  THEN /\ businesses' = businesses
                       /\ Len(events') = Len(events) + 1
                       /\ SubSeq(events', 1, Len(events)) = events
                       /\ events'[Len(events')].is_published
                       /\ events'[Len(events')].view_count = 0
                       /\ events'[Len(events')].title = resp'.request.data.title[1]
                  ELSE /\ events' = events
                       /\ Len(businesses') = Len(businesses) + 1
                       /\ SubSeq(businesses', 1, Len(businesses)) = businesses
                       /\ businesses'[Len(businesses')].is_published
                       /\ businesses'[Len(businesses')].view_count = 0
                       /\ businesses'[Len(businesses')].name = resp'.request.data.name[1]
       /\ (/\ resp.op = "submit"
           /\ resp.success
           /\ resp.request.type = "event"
           /\ resp'.op = "get_events"
           /\ resp'.request.category # None
                => resp'.request.category[1] = events[Len(events)].category)
            => \E k \in DOMAIN resp'.body :
                    /\ resp'.body[k].id = events[Len(events)].id
                    /\ resp'.body[k].view_count = 0
                    /\ (resp'.request.session_id = None
                        \/ RegistrationRows(resp'.body[k].id,
                                            resp'.request.session_id[1]) = {})
                            => ~resp'.body[k].is_registered]_vars

\* the list holds a second event with no view and no registration, next to
\* a first that was viewed and that the asking session registered for
C18_Witness ==
    /\ resp.op = "get_events"
    /\ Len(events) = 2
    /\ Len(resp.body) = 2
    /\ events[1].view_count >= 1
    /\ \E k, l \in DOMAIN resp.body :
            /\ resp.body[k].id = events[2].id
            /\ resp.body[k].view_count = 0
            /\ ~resp.body[k].is_registered
            /\ resp.body[l].id = events[1].id
            /\ resp.body[l].view_count >= 1
            /\ resp.body[l].is_registered

\* C19: init_database run again on the store that a run of it left raises
\* no error and leaves the tables, the columns of each table and all rows
\* as they were.
C19_InitIdempotent ==
    [][(/\ resp.op = "init_database"
        /\ ~resp.raised
        /\ resp'.op = "init_database")
        => /\ ~resp'.raised
           /\ schema' = schema
           /\ tables' = tables]_vars

\* the second run has returned, on a store whose events the first run gave
\* the category column
C19_Witness ==
    /\ resp.op = "init_database"
    /\ resp.rerun
    /\ ~resp.raised
    /\ Len(events) = MaxOldRows
    /\ events[1].category = DefaultCategory
    /\ events[1].view_count = 1
    /\ DOMAIN schema = DOMAIN CurrentSchema

\* the rows of before are the rows of after, each with its values of before
\* and with the default in each of the columns it lacked
Migrated(before, after, defaults) ==
    /\ Len(after) = Len(before)
    /\ \A i \in DOMAIN before :
            /\ DOMAIN defaults \subseteq DOMAIN after[i]
            /\ \A f \in DOMAIN before[i] : after[i][f] = before[i][f]
            /\ \A f \in (DOMAIN defaults) \ (DOMAIN before[i]) :
                    after[i][f] = defaults[f]

\* C20: whatever subset of the optional columns (category, view_count,
\* image_data or logo_data) the events and the businesses table found lack,
\* after init_database each table has all of them, every row found is
\* still there with its values, and the columns added hold the default
\* category, view_count 0 and a null payload in those rows.
C20_MigrationAddsColumns ==
    [][resp'.op = "init_database"
        => /\ ~resp'.raised
           /\ EventOptional \subseteq schema'["events"]
           /\ BusinessOptional \subseteq schema'["businesses"]
           /\ Migrated(events, events',
                       [category |-> DefaultCategory, view_count |-> 0,
                        image_data |-> None])
           /\ Migrated(businesses, businesses',
                       [category |-> DefaultCategory, view_count |-> 0,
                        logo_data |-> None])]_vars

\* C22: a failure of the store while track, register_event or submit
\* handles a request is answered with a client error (status 400..499)
\* that carries the text of the error, and the request is not run again:
\* the store is as it was.
C22_StoreErrorIsClientError ==
    [][/\ \A interaction \in FaultedInteractions, fault \in TrackFaults :
            TrackInteraction(None, RandLo, interaction, fault)
                => /\ resp'.status \in 400..499
                   /\ resp'.detail = StoreException.text
                   /\ tables' = tables
       /\ (/\ resp'.op \in {"register_event", "submit"}
           /\ ~resp'.success
           /\ resp'.detail = StoreException.text)
            => /\ resp'.status \in 400..499
               /\ tables' = tables]_vars

\* the rows of before are rows of after, equal but for view_count, which is
\* not lower; the rows of after are published with a view_count of 0 or more
RowsKept(before, after) ==
    /\ Len(after) >= Len(before)
    /\ \A i \in DOMAIN before :
            /\ [after[i] EXCEPT !.view_count = 0] = [before[i] EXCEPT !.view_count = 0]
            /\ after[i].view_count >= before[i].view_count
    /\ \A i \in DOMAIN after :
            /\ after[i].is_published
            /\ after[i].view_count >= 0

\* C23: across every step each event and each business row persists,
\* published and with every field but view_count unchanged; view_count
\* never decreases and is never negative.
C23_ContentRowsPersist ==
    [][RowsKept(events, events') /\ RowsKept(businesses, businesses')]_vars

\* an event and a business were viewed, and a later request found them
C23_Witness ==
    /\ events # <<>>
    /\ businesses # <<>>
    /\ events[1].view_count = 1
    /\ businesses[1].view_count = 1
    /\ resp.op = "get_recommendations"

\* C24: user_interactions is append-only: a step keeps every row, with its
\* values and in its place, and only track adds rows.
C24_InteractionsAppendOnly ==
    [][/\ Len(user_interactions') >= Len(user_interactions)
       /\ SubSeq(user_interactions', 1, Len(user_interactions)) = user_interactions
       /\ user_interactions' # user_interactions => resp'.op = "track"]_vars

\* two interactions are recorded and a request other than track was served
C24_Witness ==
    /\ Len(user_interactions) = 2
    /\ resp.op = "submit"
    /\ resp.success

\* C25: an interaction row that is recorded with a category, for an item
\* that exists, carries the category that item has when it is recorded.
C25_CategoryIsItemCategory ==
    [][(/\ resp'.op = "track"
        /\ resp'.success
        /\ resp'.request.category # None)
        => LET tbl == IF resp'.request.item_type = "event" THEN events ELSE businesses
           IN \A j \in DOMAIN tbl :
                tbl[j].id = resp'.request.item_id
                    => tbl[j].category = resp'.request.category[1]]_vars

\* the view_count of the rows of before whose id is id is one higher in after
OneMoreView(before, after, id) ==
    \A j \in DOMAIN before :
        before[j].id = id => after[j].view_count = before[j].view_count + 1

\* C26: a view track is all-or-nothing, also when the store raises at the
\* insert, at the update or at the commit: after the request either the
\* interaction row is recorded and, the item existing, its view_count is
\* one higher, or no table has changed.
C26_ViewTrackAtomic ==
    [][resp'.op = "track"
        => \/ tables' = tables
           \/ /\ Len(user_interactions') = Len(user_interactions) + 1
              /\ LET row == user_interactions'[Len(user_interactions')] IN
                 row.interaction_type = "view"
                    => IF row.item_type = "event"
                       THEN OneMoreView(events, events', row.item_id)
                       ELSE OneMoreView(businesses, businesses', row.item_id)]_vars

\* the store raised after the insert of a view of an event that exists; no
\* row and no view was recorded
C26_Witness ==
    /\ resp.op = "track"
    /\ ~resp.success
    /\ events # <<>>
    /\ events[1].view_count = 0
    /\ user_interactions = <<>>

\* the rows of the interaction table tbl that record a view of the item
ViewRowsIn(tbl, item_type, id) ==
    {i \in DOMAIN tbl :
        /\ tbl[i].item_type = item_type
        /\ tbl[i].item_id = id
        /\ tbl[i].interaction_type = "view"}

ViewRows(item_type, id) == ViewRowsIn(user_interactions, item_type, id)

\* C27 (as claimed): the view_count of each event and of each business is
\* the number of interaction rows that record a view of it.
C27_ViewCountIsViewRows ==
    /\ \A i \in DOMAIN events :
            events[i].view_count = Cardinality(ViewRows("event", events[i].id))
    /\ \A i \in DOMAIN businesses :
            businesses[i].view_count = Cardinality(ViewRows("business", businesses[i].id))

\* a row enters with view_count 0, and a step adds as much to the
\* view_count of a row as it adds view rows of that row
CountsViewsSince(item_type, before, after) ==
    /\ \A i \in (DOMAIN after) \ (DOMAIN before) : after[i].view_count = 0
    /\ \A i \in DOMAIN before :
            after[i].view_count - before[i].view_count
                = Cardinality(ViewRowsIn(user_interactions', item_type, before[i].id))
                    - Cardinality(ViewRowsIn(user_interactions, item_type, before[i].id))
    /\ \A i \in DOMAIN after :
            after[i].view_count
                <= Cardinality(ViewRowsIn(user_interactions', item_type, after[i].id))

\* C27 (as amended): the view_count of each event and of each business is
\* the number of interaction rows that record a view of it and were
\* recorded since the item was submitted; it is at most the number of all
\* rows that record a view of its id.
C27_ViewCountIsViewsSinceSubmit ==
    [][/\ CountsViewsSince("event", events, events')
       /\ CountsViewsSince("business", businesses, businesses')]_vars

\* an event that was viewed before and after it was submitted counts one
\* of the two views recorded
C27_Witness ==
    /\ events # <<>>
    /\ events[1].view_count = 1
    /\ Cardinality(ViewRows("event", events[1].id)) = 2

\* C21: once register_event(e, s) has succeeded, every later get_events
\* with session_id = s reports is_registered true for e: no step removes or
\* changes a registration row, and get_events called with the session id of
\* a registration row reports the event of that row, when it lists it, as
\* registered.
C21_RegistrationStaysReported ==
    [][/\ Len(event_registrations') >= Len(event_registrations)
       /\ SubSeq(event_registrations', 1, Len(event_registrations)) = event_registrations
       /\ (resp'.op = "get_events" /\ resp'.request.session_id # None)
            => \A k \in DOMAIN resp'.body :
                    RegistrationRows(resp'.body[k].id, resp'.request.session_id[1]) # {}
                        => resp'.body[k].is_registered]_vars

\* the rows of a session, in the order recorded
OwnRows(tbl, session_id) ==
    SelectSeq(tbl, LAMBDA row : row.session_id = session_id)

\* the table with the rows of the other sessions carrying the category c
OtherRowsAs(tbl, session_id, c) ==
    [i \in DOMAIN tbl |->
        IF tbl[i].session_id = session_id THEN tbl[i]
        ELSE [tbl[i] EXCEPT !.category = c]]

\* C29: the favorite_categories that get_recommendations(s) returns depend
\* on the interactions of session s only: the store without the rows that
\* track calls of other sessions recorded, and the store where those rows
\* carry any other category, give the same list (for the same order of
\* equal counts).
C29_FavoritesOwnRowsOnly ==
    resp.op = "get_recommendations"
        => LET s == resp.request.session_id
           IN \E tb \in TieBreaks :
                /\ resp.favorite_categories
                        = SelectFavoriteCategories(OwnRows(user_interactions, s), s, tb)
                /\ \A c \in {None} \cup {Some(x) : x \in HistoryCategories} :
                        resp.favorite_categories
                            = SelectFavoriteCategories(
                                    OtherRowsAs(user_interactions, s, c), s, tb)

\* a session was answered with its own category while another session
\* holds more rows of a category that the session never sent
C29_Witness ==
    /\ resp.op = "get_recommendations"
    /\ resp.favorite_categories # <<>>
    /\ \E i \in DOMAIN user_interactions :
            /\ user_interactions[i].session_id # resp.request.session_id
            /\ user_interactions[i].category # None
            /\ user_interactions[i].category[1] \notin CategoriesOf(resp.request.session_id)
            /\ \A k \in DOMAIN resp.favorite_categories :
                    CategoryCount(user_interactions[i].session_id,
                                  user_interactions[i].category[1])
                        > CategoryCount(resp.request.session_id,
                                        resp.favorite_categories[k])

\* the categories that get_categories lists for a table
ListedCategories(tbl) ==
    {SelectDistinctCategory(tbl, "asc")[k] : k \in DOMAIN SelectDistinctCategory(tbl, "asc")}

\* the rows returned are the published rows of the table with category c
ExactlyCategory(body, tbl, c) ==
    /\ \A k \in DOMAIN body : body[k].category = c
    /\ {body[k].id : k \in DOMAIN body}
            = {tbl[i].id : i \in {j \in DOMAIN tbl :
                                    tbl[j].is_published /\ tbl[j].category = c}}
    /\ \A k, l \in DOMAIN body : body[k].id = body[l].id => k = l

\* C28: for every category c that get_categories lists under events (under
\* businesses), get_events (get_businesses) called with category = c returns
\* exactly the published items whose category is c, the empty string
\* included.
C28_ListedCategoryFilters ==
    /\ (/\ resp.op = "get_events"
        /\ resp.request.category # None
        /\ resp.request.category[1] \in ListedCategories(events))
            => ExactlyCategory(resp.body, events, resp.request.category[1])
    /\ (/\ resp.op = "get_businesses"
        /\ resp.request.category # None
        /\ resp.request.category[1] \in ListedCategories(businesses))
            => ExactlyCategory(resp.body, businesses, resp.request.category[1])

\* C30: for a browser that starts without a session cookie, the session id
\* it sends to register-event and to events is the session id under which
\* the server records its tracked interactions, and once a track call was
\* answered, an event it registered for is reported as registered whenever
\* the page loads the events, a reload included.
C30_ClientSessionAgrees ==
    [][/\ \A i \in DOMAIN event_registrations', j \in DOMAIN user_interactions' :
            event_registrations'[i].session_id = user_interactions'[j].session_id
       /\ (resp'.op = "get_events" /\ user_interactions' # <<>>)
            => /\ \A j \in DOMAIN user_interactions' :
                    resp'.request.session_id = Some(user_interactions'[j].session_id)
               /\ \A k \in DOMAIN resp'.body :
                    (\E i \in DOMAIN event_registrations' :
                        event_registrations'[i].event_id = resp'.body[k].id)
                        => resp'.body[k].is_registered]_vars
====
